---- MODULE Spec2Model ----
(***************************************************************************)
(* Model of EisenhowerMatrix.tsx: the heuristic classification engine      *)
(* (scoreUrgency, scoreImportance, decideQuadrant, isBorderline,           *)
(* computeBadges, buildReasoning), the sanitizer, the Ollama refinement    *)
(* client with its timeout, and the component's handlers (addTask,         *)
(* setQuadrant, toggleDone, eliminate) over the Dexie table and the React  *)
(* state.                                                                  *)
(*                                                                         *)
(* Representation.  A JavaScript string that is only measured, joined and  *)
(* sliced (badges, reasoning) is a TLA+ string.  A task text is the        *)
(* sequence of its whitespace-separated tokens, each token standing for    *)
(* the class of substrings one of the source's regular expressions         *)
(* matches.  A JavaScript value of unknown type (a field of the service's  *)
(* JSON) is a record [t |-> typeof, v |-> printed value].                  *)
(***************************************************************************)
EXTENDS Integers, Sequences, FiniteSets, TLC

VARIABLES
  probe,        \* last evaluation of the pure functions: inputs and outputs
  enableRefine, \* useState(false), line 48
  tasks,        \* useState<Task[]>([]), line 45: the current React state
  view,         \* what the last render gave the handlers' closures
  db,           \* db.tasks: id -> stored record
  nextId,       \* ids handed out by crypto.randomUUID()
  add,          \* the addTask call in progress
  refine,       \* the refineWithOllama call in progress
  net,          \* outbound requests of the current addTask call
  now,          \* time since refineWithOllama was called, in ticks
  handlers,     \* setQuadrant / toggleDone / eliminate calls in progress
  expect        \* history: what the completed and running handlers asked for

vars == <<probe, enableRefine, tasks, view, db, nextId, add, refine, net, now,
          handlers, expect>>

appVars == <<enableRefine, tasks, view, db, nextId, add, refine, net, now,
             handlers, expect>>

(***************************************************************************)
(* Bounds of the model                                                     *)
(***************************************************************************)
MaxHint == 1000        \* largest magnitude of a user nudge that is tried
MaxTasks == 1          \* tasks addTask may create in one run
MaxLoaded == 1         \* tasks in the table when the component mounts
MaxInFlight == 2       \* handler calls that may overlap
TimeoutTicks == 2      \* timeoutMs, in clock ticks
LongLen == 300         \* length of the long strings that are tried

(***************************************************************************)
(* Program constants                                                       *)
(***************************************************************************)
ReasoningCap == 280    \* buildReasoning and addTask: 280
ReasoningKeep == 277   \* buildReasoning: slice(0,277)
DayMs == 86400000      \* ms / 86400000
ScoreMax == 5          \* Math.min(5, .)
ScoreMin == 0          \* Math.max(0, .)
EstimateDeep == 60     \* estimateMins >= 60

\* The clock stops one tick after the timeout.
MaxClock == TimeoutTicks + 1

Min(a, b) == IF a < b THEN a ELSE b
Max(a, b) == IF a > b THEN a ELSE b

QUADRANTS == {"do", "schedule", "delegate", "eliminate"}

\* An optional number (number | null | undefined).
Some(n) == [some |-> TRUE, v |-> n]
None == [some |-> FALSE, v |-> 0]

\* String.prototype.slice(0, n) for n >= 0.
Slice0(s, n) == SubSeq(s, 1, Min(n, Len(s)))

RECURSIVE Repeat(_, _)
Repeat(c, n) ==
  IF n <= 0 THEN ""
  ELSE IF n = 1 THEN c
  ELSE LET h == Repeat(c, n \div 2)
       IN  IF n % 2 = 0 THEN h \o h ELSE h \o h \o c

(***************************************************************************)
(* Text tokens and the regular expressions of the source                   *)
(***************************************************************************)
\* String.prototype.toLowerCase on the tokens used here.
toLowerCase(tok) ==
  CASE tok = "ASAP" -> "asap"
    [] tok = "Goal" -> "goal"
    [] tok = "Clean" -> "clean"
    [] tok = "Finance" -> "finance"
    [] tok = "ABCD1234" -> "abcd1234"
    [] OTHER -> tok

\* /\b(asap|today|eod|tonight)\b/ on the lower-cased text
HasUrgentWord(text) ==
  \E k \in 1..Len(text) : toLowerCase(text[k]) \in {"asap", "today", "eod", "tonight"}

\* /\b\d{1,2}:\d{2}\b/
HasTimeToken(text) ==
  \E k \in 1..Len(text) : text[k] \in {"09:30", "9:05"}

\* /\b(okr|goal|milestone)\b/i
HasOkrWord(text) ==
  \E k \in 1..Len(text) : toLowerCase(text[k]) \in {"okr", "goal", "milestone"}

\* /\b(clean inbox|file receipts|tweak theme)\b/i
HasLowPhrase(text) ==
  \E k \in 1..(Len(text) - 1) :
     <<toLowerCase(text[k]), toLowerCase(text[k + 1])>> \in
        {<<"clean", "inbox">>, <<"file", "receipts">>, <<"tweak", "theme">>}

(***************************************************************************)
(* Heuristic scoring, lines 257-282                                        *)
(***************************************************************************)
\* Faulty variant: the clamp without its floor.
ClampNoFloor(x) == Min(ScoreMax, x)

\* Math.max(0, Math.min(5, x))
Clamp(x) == Max(ScoreMin, Min(ScoreMax, x))

\* t.dueAt is an optional number here: due.getTime() - now.getTime(), in ms.
DueBase(dueAt) ==
  IF ~dueAt.some THEN 0
  ELSE IF dueAt.v < 0 THEN 5
  ELSE IF dueAt.v <= 0 THEN 4
  ELSE IF dueAt.v <= 2 * DayMs THEN 3
  ELSE 0

scoreUrgency(t) ==
  LET u0 == DueBase(t.dueAt)
      u1 == u0 + (IF HasUrgentWord(t.text) THEN 3 ELSE 0)
      u2 == u1 + (IF HasTimeToken(t.text) THEN 1 ELSE 0)
      u3 == u2 + (IF t.urgencyHint.some THEN t.urgencyHint.v ELSE 0)
  IN  Clamp(u3)

HighValueTags == {"clinic", "patients", "finance", "safety", "learning-core"}

scoreImportance(t) ==
  LET i0 == IF \E k \in 1..Len(t.tags) : toLowerCase(t.tags[k]) \in HighValueTags
            THEN 3 ELSE 0
      i1 == i0 + (IF HasOkrWord(t.text) THEN 2 ELSE 0)
      est == IF t.estimateMins.some THEN t.estimateMins.v ELSE 0
      i2 == i1 + (IF est >= EstimateDeep THEN 1 ELSE 0)
      i3 == i2 - (IF HasLowPhrase(t.text) THEN 2 ELSE 0)
      i4 == i3 + (IF t.importanceHint.some THEN t.importanceHint.v ELSE 0)
  IN  Clamp(i4)

(***************************************************************************)
(* Quadrant decision, lines 286-291                                        *)
(***************************************************************************)
\* Faulty variant: the first threshold off by one.
DecideOffByOne(u, i) ==
  IF u >= 2 /\ i >= 3 THEN "do"
  ELSE IF u <= 2 /\ i >= 3 THEN "schedule"
  ELSE IF u >= 3 /\ i <= 2 THEN "delegate"
  ELSE "eliminate"

decideQuadrant(u, i) ==
  IF u >= 3 /\ i >= 3 THEN "do"
  ELSE IF u <= 2 /\ i >= 3 THEN "schedule"
  ELSE IF u >= 3 /\ i <= 2 THEN "delegate"
  ELSE "eliminate"

(***************************************************************************)
(* Borderline detection, lines 312-322                                     *)
(***************************************************************************)
\* Faulty variant: the do gate taken over the whole do region.
FlipCandidateWholeDo(u, i, q) ==
  \/ q = "do" /\ u >= 3 /\ i >= 3
  \/ q = "schedule" /\ u = 2 /\ i >= 3
  \/ q = "delegate" /\ u >= 3 /\ i = 2
  \/ q = "eliminate" /\ u <= 2 /\ i <= 2

flipCandidate(u, i, q) ==
  \/ q = "do" /\ u = 3 /\ i = 3
  \/ q = "schedule" /\ u = 2 /\ i >= 3
  \/ q = "delegate" /\ u >= 3 /\ i = 2
  \/ q = "eliminate" /\ u <= 2 /\ i <= 2

isBorderline(u, i, q) ==
  LET edge == u = 2 \/ u = 3 \/ i = 2 \/ i = 3
      sumGate == (u + i) >= 4 /\ (u + i) <= 7
  IN  (edge /\ sumGate) \/ flipCandidate(u, i, q)

(***************************************************************************)
(* Badges and reasoning, lines 293-310 and 324-327                         *)
(***************************************************************************)
DueBadge(dueAt) ==
  IF ~dueAt.some THEN <<>>
  ELSE IF dueAt.v < 0 THEN <<"overdue">>
  ELSE IF dueAt.v <= 0 THEN <<"today">>
  ELSE IF dueAt.v <= 2 * DayMs THEN <<"due<48h">>
  ELSE <<>>

computeBadges(t) ==
  DueBadge(t.dueAt)
  \o (IF HasTimeToken(t.text) THEN <<"time">> ELSE <<>>)
  \o [k \in 1..Len(t.tags) |-> toLowerCase(t.tags[k])]
  \o (IF HasOkrWord(t.text) THEN <<"okr">> ELSE <<>>)
  \o (IF (IF t.estimateMins.some THEN t.estimateMins.v ELSE 0) >= EstimateDeep
        THEN <<"deep">> ELSE <<>>)
  \o (IF HasLowPhrase(t.text) THEN <<"low">> ELSE <<>>)

\* Array.prototype.join(sep)
RECURSIVE Join(_, _)
Join(parts, sep) ==
  IF Len(parts) = 0 THEN ""
  ELSE IF Len(parts) = 1 THEN parts[1]
  ELSE parts[1] \o sep \o Join(Tail(parts), sep)

\* The one-character truncation marker U+2026.
Ellipsis == "_"

buildReasoning(badges) ==
  LET s == Join(badges, "; ")
  IN  IF Len(s) > ReasoningCap THEN Slice0(s, ReasoningKeep) \o Ellipsis ELSE s

\* Faulty variant: the suffix appended without the final slice.
AppendLLMNoSlice(reasoning, fragment) ==
  reasoning \o (IF reasoning # "" THEN " | " ELSE "") \o "LLM: " \o fragment

\* addTask, line 89
appendLLM(reasoning, fragment) ==
  Slice0(reasoning \o (IF reasoning # "" THEN " | " ELSE "") \o "LLM: " \o fragment,
         ReasoningCap)

(***************************************************************************)
(* addTask, lines 82-90: the reasoning of the new record.  ran says        *)
(* whether the refinement branch was taken, fragment is r.reasoning.       *)
(***************************************************************************)
addTaskReasoning(badges, ran, fragment) ==
  IF ran THEN appendLLM(buildReasoning(badges), fragment)
  ELSE buildReasoning(badges)

(***************************************************************************)
(* sanitizeForModel, lines 35-40: four replace passes in source order.     *)
(* Each pass rewrites the tokens its regular expression matches.           *)
(***************************************************************************)
\* /[A-Za-z0-9._%+-]+@[A-Za-z0-9.-]+\.[A-Za-z]{2,}/g -> '[email]'
EmailPass(tok) ==
  CASE tok = "a@b.com" -> "[email]"
    [] tok = "https://a@b.com" -> "https://[email]"
    [] OTHER -> tok

\* /\b\+?\d[\d \-()]{6,}\b/g -> '[phone]'
PhonePass(tok) ==
  IF tok \in {"415-555-0101", "4155550101"} THEN "[phone]" ELSE tok

\* /https?:\/\/\S+/g -> '[url]'
UrlPass(tok) ==
  IF \/ Len(tok) > 7 /\ SubSeq(tok, 1, 7) = "http://"
     \/ Len(tok) > 8 /\ SubSeq(tok, 1, 8) = "https://"
  THEN "[url]" ELSE tok

\* /\b[A-Z0-9]{8,}\b/g -> '[id]'
IdPass(tok) ==
  IF tok \in {"ABCD1234", "4155550101"} THEN "[id]" ELSE tok

sanitizeForModel(s) ==
  [k \in 1..Len(s) |-> IdPass(UrlPass(PhonePass(EmailPass(s[k]))))]

\* Tokens one of the four patterns matches.
IsSensitive(tok) ==
  tok \in {"a@b.com", "https://a@b.com", "415-555-0101", "4155550101",
           "https://x.io/p", "ABCD1234"}

HasSensitive(text) == \E k \in 1..Len(text) : IsSensitive(text[k])

(***************************************************************************)
(* JavaScript values of the service's JSON                                 *)
(***************************************************************************)
JStr(s) == [t |-> "string", v |-> s]
JNum(s) == [t |-> "number", v |-> s]
JUndef == [t |-> "undefined", v |-> ""]
JNull == [t |-> "null", v |-> ""]

\* ToBoolean
Truthy(x) ==
  CASE x.t = "string" -> x.v # ""
    [] x.t = "number" -> x.v \notin {"0", "NaN"}
    [] OTHER -> FALSE

(***************************************************************************)
(* refineWithOllama, lines 8-32                                            *)
(***************************************************************************)
\* What the service can send as the body of an ok response:
\*   notjson  r.json() rejects              outnull  the body is JSON null
\*   missing  no response field             text     response is not JSON
\*   null     response is "null"            scalar   response is a JSON number
\*   object   response is a JSON object with these quadrant / reasoning fields
Body(kind, quadrant, reasoning) ==
  [kind |-> kind, quadrant |-> quadrant, reasoning |-> reasoning]

Bodies ==
  { Body(k, JUndef, JUndef) :
      k \in {"notjson", "outnull", "missing", "text", "null", "scalar"} }
  \cup
  { Body("object", JStr("do"), JStr("deadline is near")),
    Body("object", JStr("schedule"), JUndef),
    Body("object", JUndef, JStr("deadline is near")),
    Body("object", JStr(""), JNum("7")),
    Body("object", JStr("urgent"), JStr("deadline is near")),
    Body("object", JNum("5"), JStr(Repeat("y", LongLen))) }

\* line 30
Fallback(heuristic) ==
  [quadrant |-> JStr(heuristic), reasoning |-> "offline fallback"]

Threw == [threw |-> TRUE, value |-> Fallback("")]
Returned(r) == [threw |-> FALSE, value |-> r]

\* lines 23-28: r.json(), the fence strip, JSON.parse and the two defaults
ParseBody(body, heuristic) ==
  IF body.kind \in {"notjson", "outnull", "missing", "text", "null"} THEN Threw
  ELSE LET parsed == IF body.kind = "object" THEN body
                     ELSE Body("scalar", JUndef, JUndef)
           q == IF Truthy(parsed.quadrant) THEN parsed.quadrant ELSE JStr(heuristic)
           reason == IF parsed.reasoning.t = "string" THEN parsed.reasoning.v
                     ELSE "refined"
       IN  Returned([quadrant |-> q, reasoning |-> reason])

\* Faulty variant: the catch block lets the error escape.
SettleRethrow(attempt, heuristic) ==
  IF attempt.threw THEN [outcome |-> "rejected", result |-> Fallback(heuristic)]
  ELSE [outcome |-> "resolved", result |-> attempt.value]

\* lines 11, 29-31: try { ... } catch (_) { return fallback }
Settle(attempt, heuristic) ==
  IF attempt.threw THEN [outcome |-> "resolved", result |-> Fallback(heuristic)]
  ELSE [outcome |-> "resolved", result |-> attempt.value]

NoResult == [quadrant |-> JUndef, reasoning |-> ""]

RefineIdle ==
  [pc |-> "idle", timer |-> FALSE, heuristic |-> "", outcome |-> "none",
   result |-> NoResult, cause |-> "none"]

RefineDone(attempt, cause) ==
  LET s == Settle(attempt, refine.heuristic)
  IN  [refine EXCEPT !.pc = "done", !.outcome = s.outcome, !.result = s.result,
                     !.cause = cause]

\* The cause recorded for a body, for the properties below.
BodyCause(body) ==
  CASE body.kind \in {"notjson", "missing", "text"} -> "badjson"
    [] body.kind \in {"outnull", "null"} -> "typeerror"
    [] OTHER -> "none"

(***************************************************************************)
(* Task records and the table                                              *)
(***************************************************************************)
NullTs == "null"
IsoNow == "iso"

\* addTask's input to the scorers: dueAt = null, tags = [], estimateMins = null,
\* no hints (lines 77-81).
AddInput(text) ==
  [dueAt |-> None, text |-> text, tags |-> <<>>, estimateMins |-> None,
   urgencyHint |-> None, importanceHint |-> None]

\* Faulty variant: the refined quadrant overwrites the heuristic one.
TaskRecordOverwrite(id, text, urgency, importance, quadrant, aiSuggestion, reasoning) ==
  [id |-> id, text |-> text, urgency |-> urgency, importance |-> importance,
   quadrant |-> IF aiSuggestion.t = "string" THEN aiSuggestion.v ELSE quadrant,
   aiSuggestion |-> aiSuggestion, reasoning |-> reasoning, doneAt |-> NullTs]

\* lines 92-98; the fields that are always null or [] are left out
TaskRecord(id, text, urgency, importance, quadrant, aiSuggestion, reasoning) ==
  [id |-> id, text |-> text, urgency |-> urgency, importance |-> importance,
   quadrant |-> quadrant, aiSuggestion |-> aiSuggestion, reasoning |-> reasoning,
   doneAt |-> NullTs]

NoTask == TaskRecord(0, <<>>, 0, 0, "eliminate", JNull, "")

\* db.tasks.put(record)
Put(table, r) ==
  [k \in DOMAIN table \cup {r.id} |-> IF k = r.id THEN r ELSE table[k]]

\* tasks.find(x => x.id === id): the index of the first match, 0 when none
Find(list, id) ==
  IF \E k \in 1..Len(list) : list[k].id = id
  THEN CHOOSE k \in 1..Len(list) :
         list[k].id = id /\ \A j \in 1..(k - 1) : list[j].id # id
  ELSE 0

\* prev.map(x => x.id === id ? updated : x)
MapReplace(list, id, updated) ==
  [k \in 1..Len(list) |-> IF list[k].id = id THEN updated ELSE list[k]]

\* text.trim() is empty
IsBlank(text) == Len(text) = 0

\* The texts typed into the input box.
Texts ==
  { <<>>,
    <<"note">>,
    <<"ASAP">>,
    <<"asap", "Goal">>,
    <<"09:30", "a@b.com", "ABCD1234">>,
    <<"tonight", "9:05", "https://a@b.com">>,
    <<"goal", "Clean", "inbox", "4155550101">> }

\* Faulty variant: the toggle is not consulted.
ShouldRefineBorderlineOnly(enable, u, i, q) == isBorderline(u, i, q)

\* line 85
shouldRefine(enable, u, i, q) == enable /\ isBorderline(u, i, q)

AddIdle ==
  [pc |-> "idle", text |-> <<>>, urgency |-> 0, importance |-> 0,
   quadrant |-> "eliminate", badges |-> <<>>, sawEnable |-> FALSE,
   ran |-> FALSE, refined |-> NoResult, record |-> NoTask]

NetIdle == [sent |-> 0, text |-> <<>>]

(***************************************************************************)
(* Initial state: the table is empty and the mount effect (lines 50-57)    *)
(* has loaded it.                                                          *)
(***************************************************************************)
AppInit ==
  /\ enableRefine = FALSE
  /\ tasks = <<>>
  /\ view = [tasks |-> <<>>, enableRefine |-> FALSE]
  /\ db = [k \in {} |-> NoTask]
  /\ nextId = 1
  /\ add = AddIdle
  /\ refine = RefineIdle
  /\ net = NetIdle
  /\ now = 0
  /\ handlers = <<>>
  /\ expect = [k \in {} |-> [quadrant |-> "eliminate", done |-> FALSE]]

Init ==
  /\ probe = [kind |-> "none"]
  /\ AppInit

(***************************************************************************)
(* The checkbox (line 149) and React's re-render                           *)
(***************************************************************************)
ToggleRefine ==
  /\ enableRefine' = ~enableRefine
  /\ UNCHANGED <<probe, tasks, view, db, nextId, add, refine, net, now, handlers, expect>>

Render ==
  /\ view # [tasks |-> tasks, enableRefine |-> enableRefine]
  /\ view' = [tasks |-> tasks, enableRefine |-> enableRefine]
  /\ UNCHANGED <<probe, enableRefine, tasks, db, nextId, add, refine, net, now,
                 handlers, expect>>

(***************************************************************************)
(* addTask, lines 74-102                                                   *)
(***************************************************************************)
\* lines 75-99 up to the first await: either the fetch of refineWithOllama
\* (lines 9-20) or db.tasks.put.
AddTaskCall ==
  \E text \in Texts :
    /\ add.pc = "idle"
    /\ nextId <= MaxTasks
    /\ IF IsBlank(text)
       THEN UNCHANGED vars
       ELSE LET urgency == scoreUrgency(AddInput(text))
                importance == scoreImportance(AddInput(text))
                quadrant == decideQuadrant(urgency, importance)
                badges == computeBadges(AddInput(text))
                call == [pc |-> "putting", text |-> text, urgency |-> urgency,
                         importance |-> importance, quadrant |-> quadrant,
                         badges |-> badges, sawEnable |-> view.enableRefine,
                         ran |-> FALSE, refined |-> NoResult,
                         record |-> TaskRecord(nextId, text, urgency, importance,
                                      quadrant, JNull,
                                      addTaskReasoning(badges, FALSE, ""))]
            IN  /\ nextId' = nextId + 1
                /\ IF shouldRefine(view.enableRefine, urgency, importance, quadrant)
                   THEN /\ add' = [call EXCEPT !.pc = "refining", !.ran = TRUE,
                                               !.record = NoTask]
                        /\ net' = [sent |-> 1, text |-> sanitizeForModel(text)]
                        /\ refine' = [RefineIdle EXCEPT !.pc = "fetching",
                                        !.timer = TRUE, !.heuristic = quadrant]
                        /\ now' = 0
                   ELSE /\ add' = call
                        /\ net' = NetIdle
                        /\ UNCHANGED <<refine, now>>
                /\ UNCHANGED <<probe, enableRefine, tasks, view, db, handlers, expect>>

\* fetch rejects: the service cannot be reached
RefineTransportError ==
  /\ refine.pc = "fetching"
  /\ refine' = RefineDone(Threw, "transport")
  /\ UNCHANGED <<probe, enableRefine, tasks, view, db, nextId, add, net, now,
                 handlers, expect>>

\* fetch resolves with the response headers: lines 21-22
RefineResponse ==
  \E ok \in BOOLEAN :
    /\ refine.pc = "fetching"
    /\ refine' = IF ok THEN [refine EXCEPT !.pc = "reading", !.timer = FALSE]
                 ELSE [RefineDone(Threw, "status") EXCEPT !.timer = FALSE]
    /\ UNCHANGED <<probe, enableRefine, tasks, view, db, nextId, add, net, now,
                   handlers, expect>>

\* the timer of line 10 fires: controller.abort() rejects the pending fetch
\* or body read
RefineTimeout ==
  /\ refine.pc \in {"fetching", "reading"}
  /\ refine.timer
  /\ now >= TimeoutTicks
  /\ refine' = [RefineDone(Threw, "abort") EXCEPT !.timer = FALSE]
  /\ UNCHANGED <<probe, enableRefine, tasks, view, db, nextId, add, net, now,
                 handlers, expect>>

\* the body arrives: lines 23-28
RefineBody ==
  \E body \in Bodies :
    /\ refine.pc = "reading"
    /\ refine' = RefineDone(ParseBody(body, refine.heuristic), BodyCause(body))
    /\ UNCHANGED <<probe, enableRefine, tasks, view, db, nextId, add, net, now,
                   handlers, expect>>

\* Time passes while the call waits.  A timer that is due fires before
\* time moves on.
Tick ==
  /\ refine.pc \in {"fetching", "reading"}
  /\ now < MaxClock
  /\ ~(refine.timer /\ now >= TimeoutTicks)
  /\ now' = now + 1
  /\ UNCHANGED <<probe, enableRefine, tasks, view, db, nextId, add, refine, net,
                 handlers, expect>>

\* lines 87-99 after the await of refineWithOllama
AddTaskResume ==
  /\ add.pc = "refining"
  /\ refine.pc = "done"
  /\ IF refine.outcome = "resolved"
     THEN add' = [add EXCEPT
            !.pc = "putting",
            !.refined = refine.result,
            !.record = TaskRecord(nextId - 1, add.text, add.urgency, add.importance,
                         add.quadrant, refine.result.quadrant,
                         addTaskReasoning(add.badges, TRUE, refine.result.reasoning))]
     ELSE add' = [add EXCEPT !.pc = "idle"]
  /\ refine' = RefineIdle
  /\ now' = 0
  /\ UNCHANGED <<probe, enableRefine, tasks, view, db, nextId, net, handlers, expect>>

\* line 99: the put reaches the table
AddTaskPut ==
  /\ add.pc = "putting"
  /\ db' = Put(db, add.record)
  /\ expect' = [k \in DOMAIN expect \cup {add.record.id} |->
                  IF k = add.record.id
                  THEN [quadrant |-> add.record.quadrant, done |-> FALSE]
                  ELSE expect[k]]
  /\ add' = [add EXCEPT !.pc = "setting"]
  /\ UNCHANGED <<probe, enableRefine, tasks, view, nextId, refine, net, now, handlers>>

\* lines 100-101
AddTaskSet ==
  /\ add.pc = "setting"
  /\ tasks' = <<add.record>> \o tasks
  /\ add' = [add EXCEPT !.pc = "idle"]
  /\ UNCHANGED <<probe, enableRefine, view, db, nextId, refine, net, now, handlers,
                 expect>>

(***************************************************************************)
(* setQuadrant, toggleDone, eliminate: lines 104-127.  A call reads the    *)
(* task list of the render it was created in, builds the whole updated     *)
(* record, awaits the put and then replaces the record in the state.       *)
(* Calls are kept in call order: the table runs the puts of one store in   *)
(* the order they were made, and so their continuations.                   *)
(***************************************************************************)
Handler(kind, id, updated) ==
  [kind |-> kind, id |-> id, updated |-> updated, pc |-> "putting"]

SetExpect(id, field, value) ==
  IF field = "quadrant" THEN [expect EXCEPT ![id].quadrant = value]
  ELSE [expect EXCEPT ![id].done = value]

\* lines 105-108
SetQuadrantCall ==
  \E id \in 1..(MaxLoaded + 1), quadrant \in QUADRANTS :
    /\ Len(handlers) < MaxInFlight
    /\ LET k == Find(view.tasks, id)
       IN  IF k = 0 THEN UNCHANGED vars
           ELSE /\ handlers' = Append(handlers,
                      Handler("setQuadrant", id,
                              [view.tasks[k] EXCEPT !.quadrant = quadrant]))
                /\ expect' = SetExpect(id, "quadrant", quadrant)
                /\ UNCHANGED <<probe, enableRefine, tasks, view, db, nextId, add,
                               refine, net, now>>

\* lines 113-117
ToggleDoneCall ==
  \E id \in 1..(MaxLoaded + 1) :
    /\ Len(handlers) < MaxInFlight
    /\ LET k == Find(view.tasks, id)
       IN  IF k = 0 THEN UNCHANGED vars
           ELSE LET t == view.tasks[k]
                    doneAt == IF t.doneAt # NullTs THEN NullTs ELSE IsoNow
                IN  /\ handlers' = Append(handlers,
                          Handler("toggleDone", id, [t EXCEPT !.doneAt = doneAt]))
                    /\ expect' = SetExpect(id, "done", ~expect[id].done)
                    /\ UNCHANGED <<probe, enableRefine, tasks, view, db, nextId, add,
                                   refine, net, now>>

\* lines 122-125
EliminateCall ==
  \E id \in 1..(MaxLoaded + 1) :
    /\ Len(handlers) < MaxInFlight
    /\ LET k == Find(view.tasks, id)
       IN  IF k = 0 THEN UNCHANGED vars
           ELSE /\ handlers' = Append(handlers,
                      Handler("eliminate", id,
                              [view.tasks[k] EXCEPT !.quadrant = "eliminate"]))
                /\ expect' = SetExpect(id, "quadrant", "eliminate")
                /\ UNCHANGED <<probe, enableRefine, tasks, view, db, nextId, add,
                               refine, net, now>>

\* lines 108, 117, 125: the oldest pending put reaches the table
HandlerPut ==
  \E k \in 1..Len(handlers) :
    /\ handlers[k].pc = "putting"
    /\ \A j \in 1..(k - 1) : handlers[j].pc # "putting"
    /\ db' = Put(db, handlers[k].updated)
    /\ handlers' = [handlers EXCEPT ![k].pc = "setting"]
    /\ UNCHANGED <<probe, enableRefine, tasks, view, nextId, add, refine, net, now,
                   expect>>

\* lines 109, 118, 126: the continuation after the await
HandlerSet ==
  /\ Len(handlers) > 0
  /\ handlers[1].pc = "setting"
  /\ tasks' = MapReplace(tasks, handlers[1].id, handlers[1].updated)
  /\ handlers' = Tail(handlers)
  /\ UNCHANGED <<probe, enableRefine, view, db, nextId, add, refine, net, now, expect>>

\* A table that earlier sessions filled: the mount effect (lines 50-57) has
\* read it into the state.  Each record is one addTask stored without
\* refinement.
LoadedTexts == { <<"note">>, <<"asap", "Goal">> }

LoadedRecord(id, text) ==
  TaskRecord(id, text, scoreUrgency(AddInput(text)), scoreImportance(AddInput(text)),
             decideQuadrant(scoreUrgency(AddInput(text)),
                            scoreImportance(AddInput(text))),
             JNull, addTaskReasoning(computeBadges(AddInput(text)), FALSE, ""))

InitLoaded ==
  /\ probe = [kind |-> "none"]
  /\ \E texts \in [1..MaxLoaded -> LoadedTexts] :
       /\ db = [k \in 1..MaxLoaded |-> LoadedRecord(k, texts[k])]
       /\ tasks = [k \in 1..MaxLoaded |-> LoadedRecord(k, texts[k])]
  /\ view = [tasks |-> tasks, enableRefine |-> FALSE]
  /\ expect = [k \in 1..MaxLoaded |-> [quadrant |-> db[k].quadrant, done |-> FALSE]]
  /\ enableRefine = FALSE
  /\ nextId = MaxLoaded + 1
  /\ add = AddIdle
  /\ refine = RefineIdle
  /\ net = NetIdle
  /\ now = 0
  /\ handlers = <<>>

Next ==
  \/ ToggleRefine
  \/ Render
  \/ AddTaskCall
  \/ RefineTransportError
  \/ RefineResponse
  \/ RefineTimeout
  \/ RefineBody
  \/ Tick
  \/ AddTaskResume
  \/ AddTaskPut
  \/ AddTaskSet

\* addTask and refineWithOllama, from an empty table
Spec == Init /\ [][Next]_vars

NextHandlers ==
  \/ Render
  \/ SetQuadrantCall
  \/ ToggleDoneCall
  \/ EliminateCall
  \/ HandlerPut
  \/ HandlerSet

\* the three card handlers, from a loaded table
SpecHandlers == InitLoaded /\ [][NextHandlers]_vars

(***************************************************************************)
(* The pure functions applied once to inputs drawn from bounded sets.  The *)
(* scorers are called with every field, as migrateFromSessionStorage       *)
(* (lines 341-345) calls them.                                             *)
(***************************************************************************)
ProbeDueAts ==
  {None, Some(-1), Some(0), Some(1), Some(2 * DayMs), Some(2 * DayMs + 1)}

ProbeHints == {None, Some(-MaxHint), Some(-1), Some(2), Some(MaxHint)}

ProbeTexts ==
  { <<"note">>, <<"ASAP">>, <<"09:30">>, <<"tonight", "9:05", "Goal">>,
    <<"Clean", "inbox">>, <<"okr", "file", "receipts">> }

ProbeTags == { <<>>, <<"Finance">>, <<"home", "errand">> }

ProbeEstimates == {None, Some(EstimateDeep - 1), Some(EstimateDeep)}

ProbeBadgeLists ==
  { <<>>,
    <<"time", "okr", "low">>,
    <<"overdue", Repeat("x", ReasoningCap - 9)>>,
    <<"overdue", Repeat("x", ReasoningCap - 8)>>,
    <<Repeat("x", LongLen), "deep">> }

ProbeFragments ==
  { "", "offline fallback", "refined", Repeat("y", ReasoningCap - 5),
    Repeat("y", LongLen) }

EvalScore ==
  \E dueAt \in ProbeDueAts, text \in ProbeTexts, tags \in ProbeTags,
     estimateMins \in ProbeEstimates, urgencyHint \in ProbeHints,
     importanceHint \in ProbeHints :
    LET t == [dueAt |-> dueAt, text |-> text, tags |-> tags,
              estimateMins |-> estimateMins, urgencyHint |-> urgencyHint,
              importanceHint |-> importanceHint]
    IN  /\ probe.kind = "none"
        /\ probe' = [kind |-> "score", in |-> t,
                     urgency |-> scoreUrgency(t), importance |-> scoreImportance(t)]
        /\ UNCHANGED appVars

EvalDecide ==
  \E u \in ScoreMin..ScoreMax, i \in ScoreMin..ScoreMax :
    LET q == decideQuadrant(u, i)
    IN  /\ probe.kind = "none"
        /\ probe' = [kind |-> "decide", u |-> u, i |-> i, quadrant |-> q,
                     flip |-> flipCandidate(u, i, q),
                     borderline |-> isBorderline(u, i, q)]
        /\ UNCHANGED appVars

EvalReasoning ==
  \E badges \in ProbeBadgeLists, ran \in BOOLEAN, fragment \in ProbeFragments :
    /\ probe.kind = "none"
    /\ probe' = [kind |-> "reasoning", badges |-> badges, ran |-> ran,
                 fragment |-> fragment,
                 built |-> buildReasoning(badges),
                 stored |-> addTaskReasoning(badges, ran, fragment)]
    /\ UNCHANGED appVars

EvalSanitize ==
  \E text \in Texts :
    /\ probe.kind = "none"
    /\ probe' = [kind |-> "sanitize", text |-> text, out |-> sanitizeForModel(text)]
    /\ UNCHANGED appVars

NextPure ==
  \/ EvalScore
  \/ EvalDecide
  \/ EvalReasoning
  \/ EvalSanitize

\* the pure functions on their own
SpecPure == Init /\ [][NextPure]_vars

(***************************************************************************)
(* Properties                                                              *)
(***************************************************************************)

\* C1: a finished refineWithOllama call has resolved, never rejected, and
\* after a transport error, a non-success status, a timeout abort or a body
\* that is not parseable JSON its result is exactly
\* {quadrant: heuristic, reasoning: "offline fallback"}.
C1_AlwaysResolvesWithFallback ==
  refine.pc = "done" =>
    /\ refine.outcome = "resolved"
    /\ refine.cause \in {"transport", "status", "abort", "badjson"} =>
         refine.result = [quadrant |-> [t |-> "string", v |-> refine.heuristic],
                          reasoning |-> "offline fallback"]

C1_Witness ==
  /\ refine.pc = "done"
  /\ refine.cause = "abort"
  /\ now = TimeoutTicks
  /\ refine.heuristic = "delegate"
  /\ refine.result = [quadrant |-> [t |-> "string", v |-> "delegate"],
                      reasoning |-> "offline fallback"]

\* C2: a refineWithOllama call is never still waiting (for the headers or
\* for the body) once more than timeoutMs has passed since it was made.
C2_TerminalByTimeout ==
  refine.pc \in {"fetching", "reading"} => now <= TimeoutTicks

\* C3: within one addTask call a request goes out at most once, only when
\* the refine toggle was on and the heuristic scores of the text are
\* borderline, and the text in it is sanitizeForModel(text): no token the
\* four patterns match is left, so a text holding one is never sent raw.
C3_RequestGatedOnceSanitized ==
  /\ net.sent <= 1
  /\ refine.pc # "idle" => net.sent = 1
  /\ net.sent = 1 =>
       /\ add.sawEnable
       /\ add.urgency = scoreUrgency(AddInput(add.text))
       /\ add.importance = scoreImportance(AddInput(add.text))
       /\ add.quadrant = decideQuadrant(add.urgency, add.importance)
       /\ isBorderline(add.urgency, add.importance, add.quadrant)
       /\ net.text = sanitizeForModel(add.text)
       /\ ~HasSensitive(net.text)
       /\ HasSensitive(add.text) => net.text # add.text

C3_Witness ==
  /\ net.sent = 1
  /\ refine.pc = "fetching"
  /\ add.text = <<"09:30", "a@b.com", "ABCD1234">>
  /\ net.text = <<"09:30", "[email]", "[id]">>

\* C4: the record addTask stores has the quadrant decideQuadrant gives for
\* the heuristic scores, whatever refinement returned; the refined quadrant
\* is in aiSuggestion only, and aiSuggestion is null exactly when refinement
\* did not run.
C4_StoredQuadrantIsHeuristic ==
  add.pc \in {"putting", "setting"} =>
    LET r == add.record
        u == scoreUrgency(AddInput(add.text))
        i == scoreImportance(AddInput(add.text))
    IN  /\ r.urgency = u
        /\ r.importance = i
        /\ r.quadrant = decideQuadrant(u, i)
        /\ (r.aiSuggestion = JNull) <=> ~add.ran
        /\ add.ran => r.aiSuggestion = add.refined.quadrant
        /\ add.pc = "setting" => r.id \in DOMAIN db /\ db[r.id] = r

C4_Witness ==
  /\ add.pc = "setting"
  /\ add.ran
  /\ add.record.quadrant = "eliminate"
  /\ add.record.aiSuggestion = JStr("do")
  /\ db[add.record.id] = add.record

\* The four rules of the decision table, as conditions on (u, i).
RuleHolds(label, u, i) ==
  CASE label = "do" -> u >= 3 /\ i >= 3
    [] label = "schedule" -> u <= 2 /\ i >= 3
    [] label = "delegate" -> u >= 3 /\ i <= 2
    [] label = "eliminate" -> u <= 2 /\ i <= 2

\* C5: on the 6 x 6 grid decideQuadrant returns one of the four labels,
\* exactly one of the four rules holds in every cell, and the label returned
\* is that rule's.
C5_RulesPartitionGrid ==
  probe.kind = "decide" =>
    /\ probe.quadrant \in {"do", "schedule", "delegate", "eliminate"}
    /\ Cardinality({l \in QUADRANTS : RuleHolds(l, probe.u, probe.i)}) = 1
    /\ RuleHolds(probe.quadrant, probe.u, probe.i)

C5_Witness ==
  /\ probe.kind = "decide"
  /\ probe.u = 2
  /\ probe.i = 3
  /\ probe.quadrant = "schedule"

\* C6: scoreUrgency and scoreImportance return an integer in 0..5 for every
\* combination of signals and every hint, however large; the -2 penalty
\* never gives a negative importance.
C6_ScoresInRange ==
  probe.kind = "score" =>
    /\ probe.urgency \in 0..5
    /\ probe.importance \in 0..5

C6_Witness ==
  /\ probe.kind = "score"
  /\ probe.in.text = <<"Clean", "inbox">>
  /\ probe.in.tags = <<>>
  /\ probe.in.importanceHint = Some(-MaxHint)
  /\ probe.in.urgencyHint = Some(MaxHint)
  /\ probe.importance = 0
  /\ probe.urgency = 5

\* C7: the reasoning addTask stores is at most 280 characters long for every
\* badge list and every refinement fragment; buildReasoning keeps a join of
\* at most 280 characters and cuts a longer one to 277 plus the marker.
C7_ReasoningAtMost280 ==
  probe.kind = "reasoning" =>
    LET joined == Join(probe.badges, "; ")
    IN  /\ Len(probe.built) <= 280
        /\ Len(probe.stored) <= 280
        /\ Len(joined) <= 280 => probe.built = joined
        /\ Len(joined) > 280 =>
             /\ Len(probe.built) = 278
             /\ SubSeq(probe.built, 278, 278) = Ellipsis
             /\ SubSeq(probe.built, 1, 277) = SubSeq(joined, 1, 277)

C7_Witness ==
  /\ probe.kind = "reasoning"
  /\ probe.ran
  /\ Len(Join(probe.badges, "; ")) > 280
  /\ Len(probe.fragment) > 280
  /\ Len(probe.stored) = 280

\* C8: the quadrant refineWithOllama returns, and the aiSuggestion addTask
\* stores from it, is one of the four labels for every response.
C8_RefinedQuadrantIsLabel ==
  /\ refine.pc = "done" =>
       /\ refine.result.quadrant.t = "string"
       /\ refine.result.quadrant.v \in QUADRANTS
  /\ add.pc \in {"putting", "setting"} /\ add.ran =>
       /\ add.record.aiSuggestion.t = "string"
       /\ add.record.aiSuggestion.v \in QUADRANTS

\* Changing u or i by exactly 1 inside 0..5 changes the quadrant.
OneUnitFromFlip(u, i, q) ==
  \E d \in {-1, 1} :
    \/ (u + d) \in 0..5 /\ decideQuadrant(u + d, i) # q
    \/ (i + d) \in 0..5 /\ decideQuadrant(u, i + d) # q

\* C9 as stated: whenever the flip-candidate gate is true the pair is one
\* unit away from flipping.
C9_FlipGateIsOneUnitAway ==
  probe.kind = "decide" /\ probe.flip =>
    OneUnitFromFlip(probe.u, probe.i, probe.quadrant)

\* C9 amended: whenever the flip-candidate gate is true and, when the
\* quadrant is eliminate, u = 2 or i = 2, the pair is one unit away from
\* flipping.
C9_FlipGateOnEdgeIsOneUnitAway ==
  probe.kind = "decide" /\ probe.flip
     /\ (probe.quadrant = "eliminate" => probe.u = 2 \/ probe.i = 2) =>
    OneUnitFromFlip(probe.u, probe.i, probe.quadrant)

C9_Witness ==
  /\ probe.kind = "decide"
  /\ probe.flip
  /\ probe.quadrant = "eliminate"
  /\ probe.u = 2
  /\ probe.i = 0
  /\ decideQuadrant(3, 0) = "delegate"

\* C10: once no handler is running, every task carries, in the table and in
\* the task list, the last quadrant set and a doneAt toggled once per
\* toggleDone call.
C10_NoLostUpdate ==
  Len(handlers) = 0 =>
    \A id \in DOMAIN db :
      /\ db[id].quadrant = expect[id].quadrant
      /\ (db[id].doneAt # NullTs) = expect[id].done
      /\ \A k \in 1..Len(tasks) :
           tasks[k].id = id =>
             /\ tasks[k].quadrant = expect[id].quadrant
             /\ (tasks[k].doneAt # NullTs) = expect[id].done

====
